---------------------------- MODULE Spec2Model ----------------------------
(***************************************************************************)
(* Indicium-Supra engine core (src/Indicium-Supra/Engine.cpp, Engine.h):   *)
(* the process-wide registry g_EngineHostInstances, the engine life cycle  *)
(* (IndiciumEngineCreate / IndiciumEngineDestroy), the custom context      *)
(* (Alloc / Free / Get) and the detoured ExitProcess (FakeExitProcess).    *)
(*                                                                         *)
(* Collaborators that are not part of Engine.cpp are modelled by what the  *)
(* calls made in Engine.cpp do to the state Engine.cpp reads:              *)
(*  - Detours: RealExitProcess is a chain of attached detours.  A          *)
(*    committed DetourAttach adds one layer (it detours whatever           *)
(*    RealExitProcess points at, the previous trampoline included), a      *)
(*    committed DetourDetach removes the newest layer; a transaction that  *)
(*    fails changes nothing, and Engine.cpp ignores its result ("TODO:     *)
(*    error handling!").  ExitProcess reaches FakeExitProcess while at     *)
(*    least one layer is attached.                                         *)
(*  - kernel objects: one thread and one auto-reset event per engine       *)
(*    record, each with a handle that is open or closed.                   *)
(*  - the heap: malloc returns a block that is not live, or fails.         *)
(*  - spdlog: an opaque sink; it holds no state any operation reads.       *)
(***************************************************************************)
EXTENDS Integers, Sequences, FiniteSets, TLC

\* ----------------------------------------------------------------- bounds
NumModules == 2        \* host-module identities (HMODULE values) in play
MaxEngines == 2        \* INDICIUM_ENGINE records the heap can hold
MaxBlocks  == 2        \* custom-context blocks the heap can hold
MaxLen     == 1        \* longest caller buffer, in bytes
MaxLayers  == 2        \* detour layers Detours can stack on ExitProcess
NumSlots   == 2        \* callback slots in one event-callback table
NumCallbacks == 1      \* distinct callback functions the host can register

\* ------------------------------------------------------ program constants
NULL == 0              \* nullptr / NULL handle

Modules   == 1..NumModules
EngineIds == 1..MaxEngines
Blocks    == 1..MaxBlocks
ByteValues == {0, 1}
ExitCodes == {0, 3}

RECURSIVE SeqsUpTo(_)
SeqsUpTo(n) ==
    IF n = 0 THEN {<<>>}
    ELSE LET shorter == SeqsUpTo(n - 1)
         IN shorter \cup {Append(s, b) : s \in {t \in shorter : Len(t) = n - 1}, b \in ByteValues}

\* Contents a caller buffer can have: 1..MaxLen bytes.
Payloads == SeqsUpTo(MaxLen) \ {<<>>}

\* The backends with an IndiciumEngineSet...EventCallbacks in Engine.cpp, and
\* the event-callback tables of INDICIUM_ENGINE (EventsD3D9 .. EventsARC).
Variants == {"D3D9", "D3D10", "D3D11", "D3D12"}
TableVariants == Variants \cup {"ARC"}

\* An INDICIUM_..._EVENT_CALLBACKS structure: each member is a function
\* pointer or NULL.
Slots == 1..NumSlots
Callbacks == 1..NumCallbacks
CallbackTables == [Slots -> Callbacks \cup {NULL}]
EmptyTable == [s \in Slots |-> NULL]

\* INDICIUM_ENGINE_CONFIG, reduced to the field Engine.cpp branches on.
Configs == [EvtIndiciumGamePreExit : BOOLEAN]

\* What the environment answers to the calls IndiciumEngineCreate makes.
\* A call that is not reached answers nothing (FALSE), so each outcome is listed once.
CreateEnvs ==
    {env \in [detour : BOOLEAN, getModule : BOOLEAN, malloc : BOOLEAN,
              createEvent : BOOLEAN, createThread : BOOLEAN] :
        /\ env.malloc => env.getModule
        /\ env.createEvent => env.malloc
        /\ env.createThread => env.malloc}

VARIABLES
    g_EngineHostInstances,  \* std::map<HMODULE, PINDICIUM_ENGINE>: [Modules -> EngineIds \cup {NULL}]
    RealExitProcess,        \* number of detour layers attached to ExitProcess (0: the original)
    engines,                \* the INDICIUM_ENGINE records malloc'ed so far
    threads,                \* kernel thread objects, one per engine record
    events,                 \* kernel event objects, one per engine record
    mem,                    \* heap blocks used for custom contexts
    callerBuf,              \* the host's own buffer, passed as Context
    debugBuild,             \* whether Engine.cpp was compiled with _DEBUG
    proc,                   \* "running" | "guard" | "exited" | "crashed"
    guard,                  \* FakeExitProcess: loop iterator, the entry it points at, position, uExitCode
    guardLog,               \* the calls FakeExitProcess has made, in order
    realExitArg,            \* argument the original ExitProcess was entered with
    lastOp                  \* the call or step that led to this state, and what it returned

vars == <<g_EngineHostInstances, RealExitProcess, engines, threads, events, mem,
          callerBuf, debugBuild, proc, guard, guardLog, realExitArg, lastOp>>

Op(op, arg, ret, out) == [op |-> op, arg |-> arg, ret |-> ret, out |-> out]

\* ZeroMemory(engine, sizeof(INDICIUM_ENGINE)) on a record not yet malloc'ed.
ZeroEngine ==
    [allocated |-> FALSE, HostInstance |-> NULL,
     EngineConfig |-> [EvtIndiciumGamePreExit |-> FALSE],
     Events |-> [v \in TableVariants |-> EmptyTable],
     EngineThread |-> NULL, EngineCancellationEvent |-> NULL, CustomContext |-> NULL]

NoThread == [state |-> "none", open |-> FALSE]
NoEvent  == [state |-> "none", open |-> FALSE]
FreeBlock == [state |-> "unused", data |-> <<>>]
GuardIdle == [it |-> NULL, engine |-> NULL, step |-> "idle", uExitCode |-> 0]

Init ==
    /\ g_EngineHostInstances = [m \in Modules |-> NULL]
    /\ RealExitProcess = 0
    /\ engines = [e \in EngineIds |-> ZeroEngine]
    /\ threads = [e \in EngineIds |-> NoThread]
    /\ events = [e \in EngineIds |-> NoEvent]
    /\ mem = [b \in Blocks |-> FreeBlock]
    /\ callerBuf = <<0>>
    /\ debugBuild \in BOOLEAN
    /\ proc = "running"
    /\ guard = GuardIdle
    /\ guardLog = <<>>
    /\ realExitArg = NULL
    /\ lastOp = Op("start", NULL, "NONE", NULL)

\* ------------------------------------------------------------ the registry

\* g_EngineHostInstances.count(HostInstance)
Registered(m) == g_EngineHostInstances[m] # NULL

RegisteredModules == {m \in Modules : Registered(m)}

\* g_EngineHostInstances.size()
InstanceCount == Cardinality(RegisteredModules)

\* ---------------------------------------------------------------- Detours

\* DetourTransactionBegin .. DetourAttach(&RealExitProcess, FakeExitProcess) ..
\* DetourTransactionCommit: one more layer when the transaction commits (it
\* cannot once MaxLayers trampolines are in use).
DetourAttach(layers, committed) ==
    IF committed /\ layers < MaxLayers THEN layers + 1 ELSE layers

\* DetourTransactionBegin .. DetourDetach(&RealExitProcess, FakeExitProcess) ..
\* DetourTransactionCommit: the newest layer removed when the transaction commits.
DetourDetach(layers, committed) ==
    IF committed /\ layers > 0 THEN layers - 1 ELSE layers

\* Whether a call of ExitProcess enters FakeExitProcess.
Intercepted == RealExitProcess > 0

\* ------------------------------------------------------ IndiciumEngineCreate

\* malloc(sizeof(INDICIUM_ENGINE)): records are never freed, so the heap
\* hands out the next unused one, and has none left after MaxEngines.
UnusedEngines == {e \in EngineIds : ~engines[e].allocated}

NewEngine == CHOOSE e \in UnusedEngines : \A f \in UnusedEngines : e <= f

\* Mutant: the registry is not consulted before creating.
AlreadyAllocated_Never(m) == FALSE

\* The early return of IndiciumEngineCreate.
AlreadyAllocated(m) == Registered(m)

\* The INDICIUM_ERROR IndiciumEngineCreate returns.
CreateResult(m, env) ==
    IF AlreadyAllocated(m) THEN "ENGINE_ALREADY_ALLOCATED"
    ELSE IF ~env.getModule THEN "REFERENCE_INCREMENT_FAILED"
    ELSE IF ~env.malloc \/ UnusedEngines = {} THEN "ENGINE_ALLOCATION_FAILED"
    ELSE IF ~env.createThread THEN "CREATE_THREAD_FAILED"
    ELSE "NONE"

\* The record after ZeroMemory, HostInstance, CopyMemory of the configuration,
\* CreateEvent and CreateThread.
NewEngineRecord(e, m, cfg, env) ==
    [allocated |-> TRUE, HostInstance |-> m, EngineConfig |-> cfg,
     Events |-> [v \in TableVariants |-> EmptyTable],
     EngineThread |-> IF env.createThread THEN e ELSE NULL,
     EngineCancellationEvent |-> IF env.createEvent THEN e ELSE NULL,
     CustomContext |-> NULL]

\* CreateEvent(nullptr, FALSE, FALSE, nullptr): auto-reset, initially unset.
CreateEvent(ok) ==
    IF ok THEN [state |-> "unset", open |-> TRUE] ELSE NoEvent

\* CreateThread(.., IndiciumMainThread, engine, ..)
CreateThread(ok) ==
    IF ok THEN [state |-> "running", open |-> TRUE] ELSE NoThread

\* Mutant: the record is registered before CreateThread is checked.
RegistryAfterCreate_BeforeThread(m, e, ret) == [g_EngineHostInstances EXCEPT ![m] = e]

\* g_EngineHostInstances[HostInstance] = engine, reached only on success.
RegistryAfterCreate(m, e, ret) ==
    IF ret = "NONE" THEN [g_EngineHostInstances EXCEPT ![m] = e]
    ELSE g_EngineHostInstances

\* *Engine = engine, when the caller passed Engine and the call succeeded.
CreateOut(e, ret, wantHandle) ==
    IF ret = "NONE" /\ wantHandle THEN e ELSE NULL

\* The body of IndiciumEngineCreate, on whichever thread calls it.
CreateCall(m, cfg, wantHandle, env) ==
    /\ LET ret == CreateResult(m, env)
           e == NewEngine
       IN /\ lastOp' = Op("create", m, ret, IF ret = "NONE" THEN CreateOut(e, ret, wantHandle) ELSE NULL)
          /\ IF ret = "ENGINE_ALREADY_ALLOCATED"
             THEN UNCHANGED <<g_EngineHostInstances, RealExitProcess, engines, threads, events>>
             ELSE /\ RealExitProcess' = DetourAttach(RealExitProcess, env.detour)
                  /\ IF ret \in {"CREATE_THREAD_FAILED", "NONE"}
                     THEN /\ engines' = [engines EXCEPT ![e] = NewEngineRecord(e, m, cfg, env)]
                          /\ events' = [events EXCEPT ![e] = CreateEvent(env.createEvent)]
                          /\ threads' = [threads EXCEPT ![e] = CreateThread(env.createThread)]
                          /\ g_EngineHostInstances' = RegistryAfterCreate(m, e, ret)
                     ELSE UNCHANGED <<g_EngineHostInstances, engines, threads, events>>
    /\ UNCHANGED <<mem, callerBuf, debugBuild, proc, guard, guardLog, realExitArg>>

\* IndiciumEngineCreate called while no thread is in ExitProcess.
IndiciumEngineCreate(m, cfg, wantHandle, env) ==
    /\ proc = "running"
    /\ CreateCall(m, cfg, wantHandle, env)

\* ----------------------------------------------------- IndiciumEngineDestroy

\* CloseHandle(h): closes the object's handle; a NULL handle closes nothing.
CloseHandle(objects, h) ==
    IF h = NULL THEN objects ELSE [objects EXCEPT ![h].open = FALSE]

\* Mutant: clear() instead of erase(it).
RegistryErase_Clear(m) == [k \in Modules |-> NULL]

\* g_EngineHostInstances.erase(g_EngineHostInstances.find(HostInstance))
RegistryErase(m) == [g_EngineHostInstances EXCEPT ![m] = NULL]

\* Mutant: the wrong error constant for an unknown host module.
DestroyResult_WrongCode(m) ==
    IF ~Registered(m) THEN "INVALID_ENGINE_HANDLE" ELSE "NONE"

\* The INDICIUM_ERROR IndiciumEngineDestroy returns.
DestroyResult(m) ==
    IF ~Registered(m) THEN "INVALID_HMODULE_HANDLE" ELSE "NONE"

\* The body of IndiciumEngineDestroy, on whichever thread calls it.
DestroyCall(m, detourCommitted) ==
    /\ LET ret == DestroyResult(m)
           e == g_EngineHostInstances[m]
       IN /\ lastOp' = Op("destroy", m, ret, NULL)
          /\ IF ret = "NONE"
             THEN /\ RealExitProcess' = DetourDetach(RealExitProcess, detourCommitted)
                  /\ events' = CloseHandle(events, engines[e].EngineCancellationEvent)
                  /\ threads' = CloseHandle(threads, engines[e].EngineThread)
                  /\ g_EngineHostInstances' = RegistryErase(m)
             ELSE UNCHANGED <<g_EngineHostInstances, RealExitProcess, threads, events>>
    /\ UNCHANGED <<engines, mem, callerBuf, debugBuild, proc, guard, guardLog, realExitArg>>

\* IndiciumEngineDestroy called while no thread is in ExitProcess.
IndiciumEngineDestroy(m, detourCommitted) ==
    /\ proc = "running"
    /\ DestroyCall(m, detourCommitted)

\* ------------------------------------------------------- the custom context

\* The PINDICIUM_ENGINE values host code can hold: IndiciumEngineCreate hands
\* the record to the caller and to the worker thread once the thread exists.
\* Records are never freed, so a pointer stays valid after destroy.
KnownEngines == {e \in EngineIds : engines[e].EngineThread # NULL}

\* The address of the caller's buffer, distinct from every heap block.
CallerBufAddr == MaxBlocks + 1

\* The bytes a context pointer points at.
Deref(p) == IF p = CallerBufAddr THEN callerBuf ELSE mem[p].data

\* free(p): the block is released.  Releasing a block that is not live is
\* undefined behaviour; see IndiciumEngineFreeCustomContext.
HeapFree(heap, p) == [heap EXCEPT ![p] = [state |-> "released", data |-> <<>>]]

\* if (Engine->CustomContext) free(Engine->CustomContext), as a heap update.
FreeContextOf(heap, e) ==
    IF engines[e].CustomContext # NULL THEN HeapFree(heap, engines[e].CustomContext) ELSE heap

\* Engine->CustomContext once IndiciumEngineFreeCustomContext returns: the
\* field is not written.
ContextAfterFree(e) == engines[e].CustomContext

\* if (!Engine->CustomContext) IndiciumEngineFreeCustomContext(Engine):
\* whether IndiciumEngineAllocCustomContext calls the free first.
AllocFreesFirst(e) == engines[e].CustomContext = NULL

\* What malloc(ContextSize) can return: a block that is not live, or NULL.
MallocChoices(heap) == {b \in Blocks : heap[b].state # "live"} \cup {NULL}

\* Mutant: one byte too few is copied.
Memcpy_Truncated(heap, p, src, n) ==
    [heap EXCEPT ![p] = [state |-> "live", data |-> SubSeq(src, 1, n - 1)]]

\* memcpy(Engine->CustomContext, Context, ContextSize) into the block malloc
\* returned.
Memcpy(heap, p, src, n) == [heap EXCEPT ![p] = [state |-> "live", data |-> SubSeq(src, 1, n)]]

\* Engine->CustomContext = malloc(ContextSize): the pointer the record keeps.
ContextStored(p) == p

\* IndiciumEngineAllocCustomContext(Engine, Context = the caller's buffer,
\* ContextSize = n); p is what malloc returns.
IndiciumEngineAllocCustomContext(e, n, p) ==
    /\ proc = "running"
    /\ IF e = NULL
       THEN /\ lastOp' = Op("alloc", e, "INVALID_ENGINE_HANDLE", NULL)
            /\ UNCHANGED <<engines, mem>>
       ELSE LET freed == IF AllocFreesFirst(e) THEN FreeContextOf(mem, e) ELSE mem
            IN /\ p \in MallocChoices(freed)
               /\ engines' = [engines EXCEPT ![e].CustomContext = ContextStored(p)]
               /\ mem' = IF p = NULL THEN freed ELSE Memcpy(freed, p, callerBuf, n)
               /\ lastOp' = Op("alloc", e, IF p = NULL THEN "CONTEXT_ALLOCATION_FAILED" ELSE "NONE", n)
    /\ UNCHANGED <<g_EngineHostInstances, RealExitProcess, threads, events, callerBuf,
                   debugBuild, proc, guard, guardLog, realExitArg>>

\* IndiciumEngineFreeCustomContext(Engine).  free() of a block that is already
\* released is undefined behaviour: the call returns with the heap as it was,
\* or the process dies.
IndiciumEngineFreeCustomContext(e, survives) ==
    /\ proc = "running"
    /\ IF e = NULL
       THEN /\ lastOp' = Op("free", e, "INVALID_ENGINE_HANDLE", NULL)
            /\ UNCHANGED <<engines, mem, proc>>
       ELSE LET p == engines[e].CustomContext
                doubleFree == p # NULL /\ mem[p].state # "live"
            IN /\ mem' = FreeContextOf(mem, e)
               /\ engines' = [engines EXCEPT ![e].CustomContext = ContextAfterFree(e)]
               /\ proc' = IF doubleFree /\ ~survives THEN "crashed" ELSE "running"
               /\ lastOp' = Op("free", e, IF doubleFree /\ ~survives THEN "CRASH" ELSE "NONE", p)
    /\ UNCHANGED <<g_EngineHostInstances, RealExitProcess, threads, events, callerBuf,
                   debugBuild, guard, guardLog, realExitArg>>

\* IndiciumEngineGetCustomContext(Engine): the pointer it returns.
GetCustomContext(e) == IF e = NULL THEN NULL ELSE engines[e].CustomContext

IndiciumEngineGetCustomContext(e) ==
    /\ proc = "running"
    /\ lastOp' = Op("get", e, "NONE", GetCustomContext(e))
    /\ UNCHANGED <<g_EngineHostInstances, RealExitProcess, engines, threads, events, mem,
                   callerBuf, debugBuild, proc, guard, guardLog, realExitArg>>

\* The host overwrites its own buffer.
CallerWrite(bytes) ==
    /\ proc = "running"
    /\ callerBuf' = bytes
    /\ lastOp' = Op("write", NULL, "NONE", NULL)
    /\ UNCHANGED <<g_EngineHostInstances, RealExitProcess, engines, threads, events, mem,
                   debugBuild, proc, guard, guardLog, realExitArg>>

\* ------------------------------------------------- the event-callback tables

\* Mutant: only the members that are set in *Callbacks are copied.
TableAssigned_Merge(old, new) ==
    [s \in Slots |-> IF new[s] # NULL THEN new[s] ELSE old[s]]

\* Engine->EventsD3D9 = *Callbacks: a structure assignment, every member copied.
TableAssigned(old, new) == new

\* Mutant: the assignment lands in the table of every backend.
EngineAfterSet_EveryTable(rec, v, table) ==
    [rec EXCEPT !.Events = [w \in TableVariants |-> table]]

\* The record after Engine->Events<v> = *Callbacks: one member of the record
\* is written.
EngineAfterSet(rec, v, table) ==
    [rec EXCEPT !.Events[v] = TableAssigned(@, table)]

\* IndiciumEngineSetD3D9EventCallbacks .. IndiciumEngineSetD3D12EventCallbacks
\* (Engine, Callbacks), v naming which of the four is called.
IndiciumEngineSetEventCallbacks(e, v, table) ==
    /\ proc = "running"
    /\ lastOp' = Op("setCallbacks", e, "NONE", [variant |-> v, table |-> table])
    /\ IF e = NULL
       THEN UNCHANGED engines
       ELSE engines' = [engines EXCEPT ![e] = EngineAfterSet(@, v, table)]
    /\ UNCHANGED <<g_EngineHostInstances, RealExitProcess, threads, events, mem, callerBuf,
                   debugBuild, proc, guard, guardLog, realExitArg>>

\* INVOKE_D3D9_CALLBACK .. INVOKE_ARC_CALLBACK(engine, callback, ...): the
\* function that is called, NULL when the member is not set ((void)0).
InvokeCallback(e, v, s) == engines[e].Events[v][s]

\* A hooked backend call on the worker's side raises the event of slot s.
BackendEvent(e, v, s) ==
    /\ proc = "running"
    /\ threads[e].state = "running"
    /\ lastOp' = Op("invoke", e, "NONE", [variant |-> v, slot |-> s, callback |-> InvokeCallback(e, v, s)])
    /\ UNCHANGED <<g_EngineHostInstances, RealExitProcess, engines, threads, events, mem,
                   callerBuf, debugBuild, proc, guard, guardLog, realExitArg>>

\* ------------------------------------------------------- the worker thread

\* IndiciumMainThread (Game.cpp) is outside Engine.cpp: it waits on the
\* engine's cancellation event and, once its wait is satisfied, unhooks and
\* returns.  The event is auto-reset (CreateEvent's bManualReset is FALSE),
\* so the satisfied wait resets it.
WorkerWake(e) ==
    /\ proc \in {"running", "guard"}
    /\ threads[e].state = "running"
    /\ events[e].state = "set"
    /\ events' = [events EXCEPT ![e].state = "unset"]
    /\ threads' = [threads EXCEPT ![e].state = "stopping"]
    /\ lastOp' = Op("worker:wake", e, "NONE", NULL)
    /\ UNCHANGED <<g_EngineHostInstances, RealExitProcess, engines, mem, callerBuf,
                   debugBuild, proc, guard, guardLog, realExitArg>>

WorkerEnd(e) ==
    /\ proc \in {"running", "guard"}
    /\ threads[e].state = "stopping"
    /\ threads' = [threads EXCEPT ![e].state = "ended"]
    /\ lastOp' = Op("worker:end", e, "NONE", NULL)
    /\ UNCHANGED <<g_EngineHostInstances, RealExitProcess, engines, events, mem, callerBuf,
                   debugBuild, proc, guard, guardLog, realExitArg>>

\* ---------------------------------------------------------- FakeExitProcess

\* for (const auto& kv : g_EngineHostInstances): std::map iterates its keys in
\* ascending order; NULL stands for end().
MapBegin ==
    IF RegisteredModules = {} THEN NULL
    ELSE CHOOSE m \in RegisteredModules : \A k \in RegisteredModules : m <= k

MapNext(m) ==
    LET later == {k \in RegisteredModules : k > m}
    IN IF later = {} THEN NULL ELSE CHOOSE k \in later : \A j \in later : k <= j

\* Where FakeExitProcess stands once the iterator is at `it`: at the top of
\* the loop body, or past the loop at the call of RealExitProcess.
LoopStep(it) == IF it = NULL THEN "exit" ELSE "preexit"

\* kv.second of the entry the iterator has arrived at.
EntryAt(it) == IF it = NULL THEN NULL ELSE g_EngineHostInstances[it]

\* Mutant: the wait comes before the cancellation event is signalled.
StepAfter_WaitBeforeSignal(step) ==
    CASE step = "preexit" -> "wait"
      [] step = "wait" -> "setevent"
      [] OTHER -> "next"

\* The order of the statements in the loop body: pre-exit callback, SetEvent,
\* WaitForSingleObject, then the next entry.
StepAfter(step) ==
    CASE step = "preexit" -> "setevent"
      [] step = "setevent" -> "wait"
      [] OTHER -> "next"

\* The guard's position after the statement `step` of the entry guard.it.
GuardAfter(step) ==
    IF StepAfter(step) = "next"
    THEN [guard EXCEPT !.it = MapNext(guard.it), !.engine = EntryAt(MapNext(guard.it)),
                       !.step = LoopStep(MapNext(guard.it))]
    ELSE [guard EXCEPT !.step = StepAfter(step)]

LogEntry(call, e, result) == [call |-> call, engine |-> e, result |-> result]

\* The host calls ExitProcess(uExitCode): FakeExitProcess when a detour is
\* attached, the original entry point otherwise.
ExitProcess(uExitCode) ==
    /\ proc = "running"
    /\ lastOp' = Op("ExitProcess", uExitCode, "NONE", NULL)
    /\ IF Intercepted
       THEN /\ proc' = "guard"
            /\ guard' = [it |-> MapBegin, engine |-> EntryAt(MapBegin), step |-> LoopStep(MapBegin),
                         uExitCode |-> uExitCode]
            /\ UNCHANGED realExitArg
       ELSE /\ proc' = "exited"
            /\ realExitArg' = uExitCode
            /\ UNCHANGED guard
    /\ UNCHANGED <<g_EngineHostInstances, RealExitProcess, engines, threads, events, mem,
                   callerBuf, debugBuild, guardLog>>

\* Whether the entry the iterator points at has been erased since the
\* iterator arrived at it (by an IndiciumEngineDestroy on another thread).
Dangling == guard.it # NULL /\ g_EngineHostInstances[guard.it] # guard.engine

\* const auto& engine = kv.second: the value in the entry.  Reading through
\* a reference into an erased entry is undefined behaviour: it yields what
\* the entry held, or what the entry now registered under the same key holds
\* (the freed node reused); see also GuardFault.
GuardEngine ==
    {guard.engine} \cup (IF Registered(guard.it) THEN {g_EngineHostInstances[guard.it]} ELSE {})

\* if (engine->EngineConfig.EvtIndiciumGamePreExit) EvtIndiciumGamePreExit(engine);
\* the callback is host code: it returns, or it fails and takes the process down.
GuardPreExit(returns) ==
    /\ proc = "guard"
    /\ guard.step = "preexit"
    /\ \E e \in GuardEngine :
          IF engines[e].EngineConfig.EvtIndiciumGamePreExit
          THEN /\ guardLog' = Append(guardLog, LogEntry("PreExit", e, IF returns THEN "returned" ELSE "failed"))
               /\ proc' = IF returns THEN "guard" ELSE "crashed"
               /\ guard' = IF returns THEN GuardAfter("preexit") ELSE guard
               /\ lastOp' = Op("guard:preexit", e, IF returns THEN "NONE" ELSE "FAILED", NULL)
          ELSE /\ guard' = GuardAfter("preexit")
               /\ lastOp' = Op("guard:preexit", e, "SKIPPED", NULL)
               /\ UNCHANGED <<guardLog, proc>>
    /\ UNCHANGED <<g_EngineHostInstances, RealExitProcess, engines, threads, events, mem,
                   callerBuf, debugBuild, realExitArg>>

\* SetEvent(h) succeeds on an open event handle.
SetEventSucceeds(h) == h # NULL /\ events[h].open

\* const auto ret = SetEvent(engine->EngineCancellationEvent); a failure is logged.
GuardSetEvent ==
    /\ proc = "guard"
    /\ guard.step = "setevent"
    /\ \E e \in GuardEngine :
       LET h == engines[e].EngineCancellationEvent
           ret == SetEventSucceeds(h)
       IN /\ events' = IF ret THEN [events EXCEPT ![h].state = "set"] ELSE events
          /\ guardLog' = Append(guardLog, LogEntry("SetEvent", e, IF ret THEN "TRUE" ELSE "FALSE"))
          /\ lastOp' = Op("guard:setevent", e, IF ret THEN "NONE" ELSE "FAILED", NULL)
    /\ guard' = GuardAfter("setevent")
    /\ UNCHANGED <<g_EngineHostInstances, RealExitProcess, engines, threads, mem,
                   callerBuf, debugBuild, proc, realExitArg>>

\* WaitForSingleObject(h, 3000) once it returns: the thread has ended, or the
\* 3000 ms have run out with the thread still alive, or the handle cannot be
\* waited on.
WaitForSingleObject(h) ==
    IF h = NULL \/ ~threads[h].open THEN "WAIT_FAILED"
    ELSE IF threads[h].state \in {"ended", "terminated"} THEN "WAIT_OBJECT_0"
    ELSE "WAIT_TIMEOUT"

\* switch (result): the arms that call TerminateThread(engine->EngineThread, 0).
CallsTerminateThread(result, debug) ==
    CASE result = "WAIT_ABANDONED" -> FALSE
      [] result = "WAIT_OBJECT_0" -> FALSE
      [] result = "WAIT_TIMEOUT" -> ~debug
      [] result = "WAIT_FAILED" -> FALSE
      [] OTHER -> TRUE

\* TerminateThread(h, 0) ends a thread that has not ended yet.
TerminateThread(h) ==
    IF h # NULL /\ threads[h].open /\ threads[h].state \in {"running", "stopping"}
    THEN [threads EXCEPT ![h].state = "terminated"]
    ELSE threads

\* const auto result = WaitForSingleObject(engine->EngineThread, 3000); the
\* switch; then the loop goes on to the next entry.
GuardWait ==
    /\ proc = "guard"
    /\ guard.step = "wait"
    /\ \E e \in GuardEngine :
       LET h == engines[e].EngineThread
           result == WaitForSingleObject(h)
           kill == CallsTerminateThread(result, debugBuild)
           waited == Append(guardLog, LogEntry("Wait", e, result))
       IN /\ threads' = IF kill THEN TerminateThread(h) ELSE threads
          /\ guardLog' = IF kill THEN Append(waited, LogEntry("TerminateThread", e, "NONE")) ELSE waited
          /\ guard' = GuardAfter("wait")
          /\ lastOp' = Op("guard:wait", e, result, NULL)
    /\ UNCHANGED <<g_EngineHostInstances, RealExitProcess, engines, events, mem,
                   callerBuf, debugBuild, proc, realExitArg>>

\* The iterator or the reference `engine` is used after its entry was
\* erased: undefined behaviour, whose other outcome is an access violation.
GuardFault ==
    /\ proc = "guard"
    /\ Dangling
    /\ proc' = "crashed"
    /\ lastOp' = Op("guard:fault", guard.engine, "CRASH", NULL)
    /\ UNCHANGED <<g_EngineHostInstances, RealExitProcess, engines, threads, events, mem,
                   callerBuf, debugBuild, guard, guardLog, realExitArg>>

\* Mutant: the guard exits with a code of its own.
ExitCodePassed_Zero(uExitCode) == 0

\* The exit code FakeExitProcess hands to RealExitProcess.
ExitCodePassed(uExitCode) == uExitCode

\* RealExitProcess(uExitCode): the trampoline into the original ExitProcess,
\* which does not return.
GuardRealExit ==
    /\ proc = "guard"
    /\ guard.step = "exit"
    /\ proc' = "exited"
    /\ realExitArg' = ExitCodePassed(guard.uExitCode)
    /\ guardLog' = Append(guardLog, LogEntry("RealExitProcess", NULL, "NONE"))
    /\ lastOp' = Op("guard:realexit", guard.uExitCode, "NONE", NULL)
    /\ UNCHANGED <<g_EngineHostInstances, RealExitProcess, engines, threads, events, mem,
                   callerBuf, debugBuild, guard>>

\* ------------------------------------------------------------ specifications

Lifecycle ==
    \/ \E m \in Modules, cfg \in Configs, wantHandle \in BOOLEAN, env \in CreateEnvs :
          IndiciumEngineCreate(m, cfg, wantHandle, env)
    \/ \E m \in Modules, committed \in BOOLEAN : IndiciumEngineDestroy(m, committed)

Worker ==
    \/ \E e \in EngineIds : WorkerWake(e)
    \/ \E e \in EngineIds : WorkerEnd(e)

Termination ==
    \/ \E c \in ExitCodes : ExitProcess(c)
    \/ \E returns \in BOOLEAN : GuardPreExit(returns)
    \/ GuardSetEvent
    \/ GuardWait
    \/ GuardRealExit

Context ==
    \/ \E e \in KnownEngines \cup {NULL}, n \in 1..MaxLen, p \in Blocks \cup {NULL} :
          n <= Len(callerBuf) /\ IndiciumEngineAllocCustomContext(e, n, p)
    \/ \E e \in KnownEngines \cup {NULL}, survives \in BOOLEAN :
          IndiciumEngineFreeCustomContext(e, survives)
    \/ \E e \in KnownEngines \cup {NULL} : IndiciumEngineGetCustomContext(e)
    \/ \E bytes \in Payloads : CallerWrite(bytes)

\* Engine life cycle, worker threads and process termination.
Next == Lifecycle \/ Worker \/ Termination

Spec == Init /\ [][Next]_vars

\* The thread that called ExitProcess keeps running FakeExitProcess: every
\* call it makes returns (WaitForSingleObject has a timeout), unless a
\* pre-exit callback takes the process down.
GuardStep ==
    \/ \E returns \in BOOLEAN : GuardPreExit(returns)
    \/ GuardSetEvent
    \/ GuardWait
    \/ GuardRealExit

FairSpec == Spec /\ WF_vars(GuardStep)

\* The custom-context operations on engines whose creation succeeded, and
\* the destruction of those engines.  No failing create and no termination
\* step reads or writes CustomContext or the context heap, so these are left
\* out here.
EverythingSucceeds ==
    [detour |-> TRUE, getModule |-> TRUE, malloc |-> TRUE, createEvent |-> TRUE,
     createThread |-> TRUE]

ContextNext ==
    \/ \E m \in Modules :
          IndiciumEngineCreate(m, [EvtIndiciumGamePreExit |-> FALSE], TRUE, EverythingSucceeds)
    \/ \E m \in Modules : IndiciumEngineDestroy(m, TRUE)
    \/ Context

ContextInit == Init /\ ~debugBuild

SpecContext == ContextInit /\ [][ContextNext]_vars

\* FakeExitProcess on the terminating thread while another thread calls
\* IndiciumEngineCreate or IndiciumEngineDestroy: g_EngineHostInstances has
\* no lock.  Each call of the other thread is taken as one step, which leaves
\* out the interleavings inside a call and adds none.
OtherThread ==
    \/ \E m \in Modules, cfg \in Configs :
          proc = "guard" /\ CreateCall(m, cfg, TRUE, EverythingSucceeds)
    \/ \E m \in Modules : proc = "guard" /\ DestroyCall(m, TRUE)

ConcurrentNext ==
    \/ \E m \in Modules, cfg \in Configs : IndiciumEngineCreate(m, cfg, TRUE, EverythingSucceeds)
    \/ OtherThread
    \/ Worker
    \/ Termination
    \/ GuardFault

SpecConcurrent == Init /\ [][ConcurrentNext]_vars

\* The event-callback tables of one engine: the host creates an engine, sets
\* tables and the hooked backend raises events.
Dispatch ==
    \/ \E e \in KnownEngines \cup {NULL}, v \in Variants, table \in CallbackTables :
          IndiciumEngineSetEventCallbacks(e, v, table)
    \/ \E e \in KnownEngines, v \in TableVariants, s \in Slots : BackendEvent(e, v, s)

DispatchNext ==
    \/ \E m \in Modules :
          /\ InstanceCount = 0
          /\ IndiciumEngineCreate(m, [EvtIndiciumGamePreExit |-> FALSE], TRUE, EverythingSucceeds)
    \/ Dispatch

SpecDispatch == ContextInit /\ [][DispatchNext]_vars

\* The tables the host passes below: nothing set, or every member set.
FrameTables == {EmptyTable, [s \in Slots |-> NumCallbacks]}

\* Everything that is done to an engine once it is created: the host sets
\* tables, allocates and frees the custom context, and the process terminates.
FrameNext ==
    \/ \E m \in Modules, cfg \in Configs :
          InstanceCount = 0 /\ IndiciumEngineCreate(m, cfg, TRUE, EverythingSucceeds)
    \/ \E e \in KnownEngines \cup {NULL}, v \in Variants, table \in FrameTables :
          IndiciumEngineSetEventCallbacks(e, v, table)
    \/ \E e \in KnownEngines, p \in Blocks \cup {NULL} : IndiciumEngineAllocCustomContext(e, 1, p)
    \/ \E e \in KnownEngines : IndiciumEngineFreeCustomContext(e, TRUE)
    \/ Worker
    \/ Termination

SpecFrame == ContextInit /\ [][FrameNext]_vars

\* ------------------------------------------------------------------ claims

\* An engine instance: a record whose worker thread was created and whose
\* handles IndiciumEngineDestroy has not closed yet.
IsInstance(e) == engines[e].allocated /\ threads[e].open

InstancesOf(m) == {e \in EngineIds : IsInstance(e) /\ engines[e].HostInstance = m}

\* The step just taken was the call `op`.
Called(op) == lastOp'.op = op

\* C1: at most one engine instance exists per host module, and it is the one
\* the registry holds; IndiciumEngineCreate for a registered host module
\* returns ENGINE_ALREADY_ALLOCATED and changes neither the registry, nor any
\* engine record, nor the detours on ExitProcess, nor any thread or event.
C1_OneInstancePerHostModule ==
    /\ [](\A m \in Modules :
            /\ Cardinality(InstancesOf(m)) <= 1
            /\ \A e \in InstancesOf(m) : g_EngineHostInstances[m] = e)
    /\ [][(Called("create") /\ Registered(lastOp'.arg)) =>
            /\ lastOp'.ret = "ENGINE_ALREADY_ALLOCATED"
            /\ lastOp'.out = NULL
            /\ UNCHANGED <<g_EngineHostInstances, engines, RealExitProcess, threads, events, mem>>]_vars

\* C1 witness: a second create for a registered host module has just returned
\* ENGINE_ALREADY_ALLOCATED while another host module is registered too.
C1_Witness ==
    /\ lastOp.op = "create"
    /\ lastOp.ret = "ENGINE_ALREADY_ALLOCATED"
    /\ InstanceCount = 2

\* C2: IndiciumEngineDestroy for a host module that is not registered returns
\* INVALID_HMODULE_HANDLE and leaves the registry as it was.
C2_DestroyUnregistered ==
    [][(Called("destroy") /\ ~Registered(lastOp'.arg)) =>
            /\ lastOp'.ret = "INVALID_HMODULE_HANDLE"
            /\ UNCHANGED g_EngineHostInstances]_vars

\* C2 witness: destroy(M) has just returned INVALID_HMODULE_HANDLE for a host
\* module M whose instance an earlier destroy(M) removed.
C2_Witness ==
    /\ lastOp.op = "destroy"
    /\ lastOp.ret = "INVALID_HMODULE_HANDLE"
    /\ \E e \in EngineIds :
          /\ engines[e].HostInstance = lastOp.arg
          /\ engines[e].EngineThread # NULL
          /\ ~threads[e].open

\* C3: the registry is empty at start; a successful create(M) adds exactly the
\* entry of M, a successful destroy(M) removes exactly the entry of M, a
\* destroy(M) of an unregistered M returns INVALID_HMODULE_HANDLE, and no other
\* step changes the registry.
C3_RegistryTracksHistory ==
    /\ InstanceCount = 0
    /\ [][LET m == lastOp'.arg
          IN CASE Called("create") /\ lastOp'.ret = "NONE" ->
                    /\ ~Registered(m)
                    /\ g_EngineHostInstances'[m] # NULL
                    /\ \A k \in Modules \ {m} : g_EngineHostInstances'[k] = g_EngineHostInstances[k]
                    /\ InstanceCount' = InstanceCount + 1
               [] Called("destroy") /\ lastOp'.ret = "NONE" ->
                    /\ Registered(m)
                    /\ g_EngineHostInstances'[m] = NULL
                    /\ \A k \in Modules \ {m} : g_EngineHostInstances'[k] = g_EngineHostInstances[k]
                    /\ InstanceCount' = InstanceCount - 1
               [] Called("destroy") /\ lastOp'.ret # "NONE" ->
                    /\ ~Registered(m)
                    /\ lastOp'.ret = "INVALID_HMODULE_HANDLE"
                    /\ UNCHANGED g_EngineHostInstances
               [] OTHER -> UNCHANGED g_EngineHostInstances]_vars

\* C3 witness: destroy(M) has just succeeded and the other host module's entry
\* is still there.
C3_Witness ==
    /\ lastOp.op = "destroy"
    /\ lastOp.ret = "NONE"
    /\ InstanceCount = 1

\* C4: a create whose CreateThread fails (the new record holds no thread
\* handle) returns CREATE_THREAD_FAILED, registers nothing and hands no engine
\* back; and CREATE_THREAD_FAILED is returned in no other case.
C4_ThreadSpawnFailure ==
    [][LET spawnFailed == \E e \in EngineIds :
                              /\ ~engines[e].allocated
                              /\ engines'[e].allocated
                              /\ engines'[e].EngineThread = NULL
       IN /\ (Called("create") /\ spawnFailed) => lastOp'.ret = "CREATE_THREAD_FAILED"
          /\ (Called("create") /\ lastOp'.ret = "CREATE_THREAD_FAILED") =>
                /\ spawnFailed
                /\ UNCHANGED g_EngineHostInstances
                /\ g_EngineHostInstances'[lastOp'.arg] = NULL
                /\ lastOp'.out = NULL]_vars

\* C4 witness: create has just returned CREATE_THREAD_FAILED while another
\* host module is registered.
C4_Witness ==
    /\ lastOp.op = "create"
    /\ lastOp.ret = "CREATE_THREAD_FAILED"
    /\ ~Registered(lastOp.arg)
    /\ InstanceCount = 1


\* The positions in guardLog of the calls `call` made for engine e.
Positions(call, e) ==
    {i \in 1..Len(guardLog) : guardLog[i].call = call /\ guardLog[i].engine = e}

\* C5: whenever the original ExitProcess runs, every instance still registered
\* has had its cancellation event signalled and, after that, its worker thread
\* waited on.
C5_EveryInstanceSignalledBeforeExit ==
    proc = "exited" =>
        \A m \in RegisteredModules :
            \E i \in Positions("SetEvent", g_EngineHostInstances[m]) :
                /\ guardLog[i].result = "TRUE"
                /\ \E j \in Positions("Wait", g_EngineHostInstances[m]) : i < j

\* C6: in FakeExitProcess, for each engine the pre-exit callback (when
\* configured) comes before SetEvent and SetEvent before WaitForSingleObject;
\* RealExitProcess is the last call, made after every registered instance was
\* waited on, and a worker whose wait returned WAIT_OBJECT_0 has ended by then.
C6_GuardOrdering ==
    /\ \A e \in EngineIds :
          /\ \A j \in Positions("SetEvent", e) :
                /\ engines[e].EngineConfig.EvtIndiciumGamePreExit =>
                      \E i \in Positions("PreExit", e) : i < j
                /\ \A i \in Positions("PreExit", e) : i < j
          /\ \A k \in Positions("Wait", e) :
                /\ \E j \in Positions("SetEvent", e) : j < k
                /\ \A j \in Positions("SetEvent", e) : j < k
    /\ \A x \in Positions("RealExitProcess", NULL) :
          /\ x = Len(guardLog)
          /\ \A m \in RegisteredModules :
                \E k \in Positions("Wait", g_EngineHostInstances[m]) :
                    /\ k < x
                    /\ guardLog[k].result = "WAIT_OBJECT_0" =>
                          threads[g_EngineHostInstances[m]].state = "ended"

\* C6 witness: the original ExitProcess has been reached through the guard
\* with two instances registered, a pre-exit callback called and a worker that
\* ended within the grace period.
C6_Witness ==
    /\ proc = "exited"
    /\ InstanceCount = 2
    /\ \E i \in 1..Len(guardLog) : guardLog[i].call = "PreExit"
    /\ \E i \in 1..Len(guardLog) : guardLog[i].call = "Wait" /\ guardLog[i].result = "WAIT_OBJECT_0"

\* What C7 promises of the state in which the original ExitProcess runs: it
\* was called once, with the exit code c, and in a release build every worker
\* whose wait timed out was terminated first.
ExitedWith(c) ==
    /\ proc = "exited"
    /\ realExitArg = c
    /\ Cardinality(Positions("RealExitProcess", NULL)) = 1
    /\ ~debugBuild =>
          \A k \in 1..Len(guardLog) :
              (guardLog[k].call = "Wait" /\ guardLog[k].result = "WAIT_TIMEOUT") =>
                  /\ guardLog[k + 1] = LogEntry("TerminateThread", guardLog[k].engine, "NONE")
                  /\ threads[guardLog[k].engine].state = "terminated"

\* C7: once FakeExitProcess is entered with exit code c, the original
\* ExitProcess is eventually called, once and with c, whatever SetEvent and the
\* waits return, unless a pre-exit callback fails.
C7_RealExitEventuallyOnce ==
    \A c \in ExitCodes :
        [](  (proc = "guard" /\ guard.uExitCode = c)
          => <>(proc = "crashed" \/ ExitedWith(c)))

\* C7 witness: the original ExitProcess was reached with a non-zero exit code
\* after a failed SetEvent, a worker that ended in time and a worker that had
\* to be terminated.
C7_Witness ==
    /\ proc = "exited"
    /\ realExitArg # 0
    /\ \E i \in 1..Len(guardLog) : guardLog[i].call = "SetEvent" /\ guardLog[i].result = "FALSE"
    /\ \E i \in 1..Len(guardLog) : guardLog[i].call = "Wait" /\ guardLog[i].result = "WAIT_OBJECT_0"
    /\ \E i \in 1..Len(guardLog) : guardLog[i].call = "TerminateThread"

\* C8: replacing the custom context releases the previous payload, also when
\* the new allocation fails, so that every live payload is the context of some
\* engine.
C8_ReplaceReleasesPrevious ==
    [][/\ \A e \in EngineIds :
             (/\ Called("alloc")
              /\ lastOp'.arg = e
              /\ engines[e].CustomContext # NULL
              /\ mem[engines[e].CustomContext].state = "live")
             => \/ mem'[engines[e].CustomContext].state # "live"
                \/ engines'[e].CustomContext = engines[e].CustomContext
       /\ \A b \in Blocks :
             mem'[b].state = "live" => \E e \in EngineIds : engines'[e].CustomContext = b]_vars

\* C9: after a successful IndiciumEngineAllocCustomContext(Engine, P, N),
\* IndiciumEngineGetCustomContext(Engine) points at a live block of the heap
\* (not at the caller's buffer) holding the N bytes of P, whether or not the
\* engine held a context before; and a later write to the caller's buffer
\* changes no engine's context.
C9_ContextRoundTrip ==
    [][/\ \A e \in EngineIds :
             (Called("alloc") /\ lastOp'.arg = e /\ lastOp'.ret = "NONE") =>
                /\ GetCustomContext(e)' \in Blocks
                /\ mem'[GetCustomContext(e)'].state = "live"
                /\ Deref(GetCustomContext(e))' = SubSeq(callerBuf, 1, lastOp'.out)
                /\ Len(Deref(GetCustomContext(e))') = lastOp'.out
       /\ \A e \in KnownEngines :
             (Called("write") /\ GetCustomContext(e) # NULL) =>
                /\ GetCustomContext(e)' = GetCustomContext(e)
                /\ Deref(GetCustomContext(e))' = Deref(GetCustomContext(e))]_vars

\* C9 witness: the only engine has just replaced its context with a payload
\* that differs from the one it stored before.
C9_Witness ==
    /\ lastOp.op = "alloc"
    /\ lastOp.ret = "NONE"
    /\ KnownEngines = {lastOp.arg}
    /\ \E b \in Blocks :
          /\ b # GetCustomContext(lastOp.arg)
          /\ mem[b].state = "live"
          /\ mem[b].data # Deref(GetCustomContext(lastOp.arg))

\* C10: IndiciumEngineFreeCustomContext returns success and leaves the engine
\* without a context (IndiciumEngineGetCustomContext returns NULL); with no
\* context it changes nothing; and it never releases a payload that is not
\* live.
C10_FreeIsIdempotent ==
    [][\A e \in EngineIds :
          (Called("free") /\ lastOp'.arg = e) =>
             /\ lastOp'.ret = "NONE"
             /\ GetCustomContext(e)' = NULL
             /\ GetCustomContext(e) = NULL => UNCHANGED <<engines, mem>>
             /\ lastOp'.out # NULL => mem[lastOp'.out].state = "live"]_vars

\* C11: after IndiciumEngineSet...EventCallbacks(Engine, Callbacks) the table
\* of that backend equals *Callbacks in every member, the members that were
\* set before and are NULL in *Callbacks included, and no other step changes
\* a table; a backend event calls the function its member holds, and calls
\* nothing (and fails nothing) when the member is NULL.
C11_TableReplacedAndDispatched ==
    [][/\ \A e \in EngineIds, v \in TableVariants :
             IF Called("setCallbacks") /\ lastOp'.arg = e /\ lastOp'.out.variant = v
             THEN \A s \in Slots : engines'[e].Events[v][s] = lastOp'.out.table[s]
             ELSE engines[e].allocated => engines'[e].Events[v] = engines[e].Events[v]
       /\ Called("invoke") =>
             LET o == lastOp'.out
                 member == engines[lastOp'.arg].Events[o.variant][o.slot]
             IN /\ lastOp'.ret = "NONE"
                /\ member # NULL => o.callback = member
                /\ member = NULL => o.callback = NULL]_vars

\* C11 witness: a backend event has just called the callback of a member of
\* a table set by IndiciumEngineSet...EventCallbacks whose other member is
\* empty, while another backend's table differs from it.
C11_Witness ==
    /\ lastOp.op = "invoke"
    /\ lastOp.out.callback # NULL
    /\ \E s \in Slots : engines[lastOp.arg].Events[lastOp.out.variant][s] = NULL
    /\ \E v \in Variants \ {lastOp.out.variant} :
          engines[lastOp.arg].Events[v] # engines[lastOp.arg].Events[lastOp.out.variant]

\* C12: the detour on ExitProcess is attached by the first
\* IndiciumEngineCreate only: a create made while ExitProcess is already
\* detoured attaches nothing, so that at most one detour is attached at a time.
C12_GuardInstalledOnce ==
    [][Called("create") =>
          /\ Intercepted => RealExitProcess' = RealExitProcess
          /\ RealExitProcess' <= 1]_vars

\* C13: an IndiciumEngineDestroy that leaves other host modules registered
\* leaves ExitProcess detoured.
C13_DetachOnlyWithLastInstance ==
    [][(Called("destroy") /\ lastOp'.ret = "NONE" /\ Intercepted /\ InstanceCount' > 0)
          => Intercepted']_vars

\* C14: when WaitForSingleObject on a worker thread fails or returns a value
\* that is none of WAIT_OBJECT_0, WAIT_TIMEOUT and WAIT_ABANDONED,
\* FakeExitProcess calls TerminateThread on that worker before it goes on; and
\* when the original ExitProcess runs in a release build, the worker of every
\* registered instance has ended or was terminated.
C14_WaitFailureTerminates ==
    /\ [][(/\ Called("guard:wait")
           /\ lastOp'.ret \notin {"WAIT_OBJECT_0", "WAIT_TIMEOUT", "WAIT_ABANDONED"})
          => guardLog'[Len(guardLog')] = LogEntry("TerminateThread", lastOp'.arg, "NONE")]_vars
    /\ []((proc = "exited" /\ guardLog # <<>> /\ ~debugBuild) =>
             \A m \in RegisteredModules :
                 threads[g_EngineHostInstances[m]].state \in {"ended", "terminated"})

\* C19: with IndiciumEngineCreate or IndiciumEngineDestroy running on another
\* thread, every SetEvent and WaitForSingleObject of FakeExitProcess is made on
\* the handle of an engine that is registered at that moment, and that handle
\* is open.
C19_GuardUsesLiveEntriesOnly ==
    [][\A e \in EngineIds :
          ((Called("guard:setevent") \/ Called("guard:wait")) /\ lastOp'.arg = e) =>
             /\ g_EngineHostInstances[engines[e].HostInstance] = e
             /\ Called("guard:setevent") => events[e].open
             /\ Called("guard:wait") => threads[e].open]_vars

\* C15: a successful IndiciumEngineDestroy releases the custom context the
\* engine holds, so that no live payload belongs to an engine that is not
\* registered.
C15_DestroyReleasesContext ==
    [][\A m \in Modules :
          (Called("destroy") /\ lastOp'.arg = m /\ lastOp'.ret = "NONE") =>
             LET p == engines[g_EngineHostInstances[m]].CustomContext
             IN (p # NULL /\ mem[p].state = "live") => mem'[p].state # "live"]_vars

\* C16: the cancellation event of an engine is created unset, and once it is
\* set it stays set, also when the worker's wait on it has been satisfied.
C16_CancellationSetOnce ==
    [][\A e \in EngineIds :
          /\ (events[e].state = "none" /\ events'[e].state # "none") => events'[e].state = "unset"
          /\ events[e].state = "set" => events'[e].state = "set"]_vars

\* C17: IndiciumEngineSet...EventCallbacks writes the table of the named
\* backend of the given engine and nothing else (configuration, other tables,
\* custom context, thread and event handles, registry, kernel objects, heap);
\* with a NULL engine it writes nothing; and no step after creation writes the
\* EngineConfig of an engine.
C17_SetCallbacksFrame ==
    [][/\ Called("setCallbacks") =>
             /\ UNCHANGED <<g_EngineHostInstances, RealExitProcess, threads, events, mem,
                            proc, guard, guardLog, realExitArg>>
             /\ \A e \in EngineIds :
                   IF e = lastOp'.arg
                   THEN engines'[e] = [engines[e] EXCEPT
                                          !.Events[lastOp'.out.variant] = lastOp'.out.table]
                   ELSE engines'[e] = engines[e]
       /\ \A e \in EngineIds :
             engines[e].allocated => engines'[e].EngineConfig = engines[e].EngineConfig]_vars

\* C17 witness: a table has just been set on an engine that holds a custom
\* context, a pre-exit callback in its configuration and a non-empty table of
\* another backend.
C17_Witness ==
    /\ lastOp.op = "setCallbacks"
    /\ lastOp.arg # NULL
    /\ engines[lastOp.arg].CustomContext # NULL
    /\ engines[lastOp.arg].EngineConfig.EvtIndiciumGamePreExit
    /\ \E v \in Variants \ {lastOp.out.variant} : engines[lastOp.arg].Events[v] # EmptyTable
    /\ engines[lastOp.arg].Events[lastOp.out.variant] # EmptyTable

\* C18: an IndiciumEngineCreate that returns REFERENCE_INCREMENT_FAILED,
\* ENGINE_ALLOCATION_FAILED or CREATE_THREAD_FAILED leaves the registry, the
\* detours on ExitProcess, the engine records and the kernel objects as they
\* were before the call.
C18_FailedCreateLeavesNoState ==
    [][(/\ Called("create")
        /\ lastOp'.ret \in {"REFERENCE_INCREMENT_FAILED", "ENGINE_ALLOCATION_FAILED",
                            "CREATE_THREAD_FAILED"})
          => UNCHANGED <<g_EngineHostInstances, RealExitProcess, engines, events, threads>>]_vars

\* C20: every worker thread that has not ended belongs to the engine that is
\* registered for its host module, so that at most one worker runs per host
\* module; and IndiciumEngineDestroy closes no handle of a worker that has not
\* ended.
C20_OneWorkerPerHostModule ==
    \A e \in EngineIds :
        threads[e].state \in {"running", "stopping"} =>
            /\ g_EngineHostInstances[engines[e].HostInstance] = e
            /\ threads[e].open
            /\ engines[e].EngineCancellationEvent # NULL => events[e].open

=============================================================================
